---- MODULE Spec2Model ----
(***************************************************************************)
(* Model of the notebook working_with_api.ipynb: three cells issue a       *)
(* blocking requests.get and read the Response, one cell sends a list and  *)
(* a dict through json.dumps and json.loads.  Texts are sequences of       *)
(* one-character strings, so that encoding and decoding are computed       *)
(* character by character, the way the json library does.                  *)
(***************************************************************************)
EXTENDS Integers, Sequences, FiniteSets, TLC

(***************************************************************************)
(* Python values as the notebook handles them.  A dict is the sequence of  *)
(* its <<key, value>> pairs in insertion order, keys unique.               *)
(***************************************************************************)
Unbound == [t |-> "unbound"]
JNull == [t |-> "null"]
JBool(b) == [t |-> "bool", v |-> b]
JInt(n) == [t |-> "int", v |-> n]
\* a float with a short decimal repr: (-1)^neg * m / 10^e, e >= 1
JFloat(neg, m, e) == [t |-> "float", neg |-> neg, m |-> m, e |-> e]
JStr(s) == [t |-> "str", v |-> s]
JList(xs) == [t |-> "list", v |-> xs]
JDict(ps) == [t |-> "dict", v |-> ps]

Digits == <<"0", "1", "2", "3", "4", "5", "6", "7", "8", "9">>
DigitSet == {Digits[i] : i \in 1..10}
DigitVal(c) == (CHOOSE i \in 1..10 : Digits[i] = c) - 1
WHITESPACE == {" ", "\t", "\n", "\r"}
ControlChars == {"\t", "\n", "\r"}

RECURSIVE Pow10(_)
Pow10(k) == IF k = 0 THEN 1 ELSE 10 * Pow10(k - 1)

(***************************************************************************)
(* json.dumps with its default arguments.                                  *)
(***************************************************************************)
RECURSIVE NatText(_)
NatText(n) == IF n < 10 THEN <<Digits[n + 1]>>
              ELSE NatText(n \div 10) \o <<Digits[(n % 10) + 1]>>

IntText(n) == IF n < 0 THEN <<"-">> \o NatText(-n) ELSE NatText(n)

RECURSIVE PadText(_, _)
PadText(n, width) == IF width = 0 THEN <<>>
                     ELSE PadText(n \div 10, width - 1) \o <<Digits[(n % 10) + 1]>>

\* float.__repr__ of a float whose shortest repr is a plain decimal
FloatText(f) ==
    (IF f.neg THEN <<"-">> ELSE <<>>)
        \o NatText(f.m \div Pow10(f.e)) \o <<".">> \o PadText(f.m % Pow10(f.e), f.e)

\* faulty variant of EscapeChar: a double quote is written unescaped
EscapeChar_KeepsQuote(c) ==
    CASE c = "\\" -> <<"\\", "\\">>
      [] c = "\n" -> <<"\\", "n">>
      [] c = "\r" -> <<"\\", "r">>
      [] c = "\t" -> <<"\\", "t">>
      [] OTHER -> <<c>>

\* ESCAPE_DCT of json.encoder, over the characters of the model
EscapeChar(c) ==
    CASE c = "\"" -> <<"\\", "\"">>
      [] c = "\\" -> <<"\\", "\\">>
      [] c = "\n" -> <<"\\", "n">>
      [] c = "\r" -> <<"\\", "r">>
      [] c = "\t" -> <<"\\", "t">>
      [] OTHER -> <<c>>

RECURSIVE EscapeAll(_)
EscapeAll(s) == IF s = <<>> THEN <<>> ELSE EscapeChar(Head(s)) \o EscapeAll(Tail(s))

EncodeString(s) == <<"\"">> \o EscapeAll(s) \o <<"\"">>

RECURSIVE Encode(_)
RECURSIVE EncodeItems(_)
RECURSIVE EncodePairs(_)
RECURSIVE EncodeItems_Reversed(_)
\* faulty variant of EncodeItems: the items are written last to first
EncodeItems_Reversed(xs) ==
    IF xs = <<>> THEN <<>>
    ELSE IF Len(xs) = 1 THEN Encode(xs[1])
    ELSE EncodeItems_Reversed(Tail(xs)) \o <<",", " ">> \o Encode(xs[1])

\* the items of a list, in order, joined by the item separator ", "
EncodeItems(xs) ==
    IF xs = <<>> THEN <<>>
    ELSE IF Len(xs) = 1 THEN Encode(xs[1])
    ELSE Encode(xs[1]) \o <<",", " ">> \o EncodeItems(Tail(xs))

\* the pairs of a dict, in insertion order, key and value joined by ": "
EncodePairs(ps) ==
    IF ps = <<>> THEN <<>>
    ELSE LET one == EncodeString(ps[1][1]) \o <<":", " ">> \o Encode(ps[1][2])
         IN IF Len(ps) = 1 THEN one
            ELSE one \o <<",", " ">> \o EncodePairs(Tail(ps))

Encode(x) ==
    CASE x.t = "null" -> <<"n", "u", "l", "l">>
      [] x.t = "bool" -> IF x.v THEN <<"t", "r", "u", "e">>
                         ELSE <<"f", "a", "l", "s", "e">>
      [] x.t = "int" -> IntText(x.v)
      [] x.t = "float" -> FloatText(x)
      [] x.t = "str" -> EncodeString(x.v)
      [] x.t = "list" -> <<"[">> \o EncodeItems(x.v) \o <<"]">>
      [] x.t = "dict" -> <<"{">> \o EncodePairs(x.v) \o <<"}">>

(***************************************************************************)
(* json.loads: the scanner and decoder of the json library.  Positions are *)
(* 1-based.  A scan yields [ok |-> TRUE, val, end] or, where the library   *)
(* raises JSONDecodeError, [ok |-> FALSE, end], which carries no value.    *)
(***************************************************************************)
At(s, i) == IF i >= 1 /\ i <= Len(s) THEN s[i] ELSE ""
Found(x, i) == [ok |-> TRUE, val |-> x, end |-> i]
Fail(i) == [ok |-> FALSE, end |-> i]

RECURSIVE SkipWs(_, _)
SkipWs(s, i) == IF At(s, i) \in WHITESPACE THEN SkipWs(s, i + 1) ELSE i

Matches(s, i, word) ==
    /\ i + Len(word) - 1 <= Len(s)
    /\ \A k \in 1..Len(word) : s[i + k - 1] = word[k]

\* BACKSLASH of json.decoder, over the characters of the model
IsEscape(c) == c \in {"\"", "\\", "/", "n", "r", "t"}
Unescape(c) ==
    CASE c = "n" -> "\n"
      [] c = "r" -> "\r"
      [] c = "t" -> "\t"
      [] OTHER -> c

\* py_scanstring; i is the position after the opening quote
RECURSIVE ScanString(_, _, _)
ScanString(s, i, acc) ==
    LET c == At(s, i) IN
    IF c = "" THEN Fail(i)
    ELSE IF c = "\"" THEN Found(JStr(acc), i + 1)
    ELSE IF c \in ControlChars THEN Fail(i)
    ELSE IF c = "\\"
         THEN IF IsEscape(At(s, i + 1))
              THEN ScanString(s, i + 2, Append(acc, Unescape(At(s, i + 1))))
              ELSE Fail(i + 1)
    ELSE ScanString(s, i + 1, Append(acc, c))

RECURSIVE DigitsEnd(_, _)
DigitsEnd(s, i) == IF At(s, i) \in DigitSet THEN DigitsEnd(s, i + 1) ELSE i

RECURSIVE DigitsValue(_, _, _)
DigitsValue(s, from, to) ==
    IF from >= to THEN 0
    ELSE DigitsValue(s, from, to - 1) * 10 + DigitVal(s[to - 1])

RECURSIVE Normalize(_)
Normalize(f) == IF f.e > 1 /\ f.m % 10 = 0
                THEN Normalize(JFloat(f.neg, f.m \div 10, f.e - 1))
                ELSE f

\* NUMBER_RE: (-?(?:0|[1-9]\d*))(\.\d+)?   (exponents are outside the model)
ScanNumber(s, i) ==
    LET neg == At(s, i) = "-"
        i0 == IF neg THEN i + 1 ELSE i
        i1 == IF At(s, i0) = "0" THEN i0 + 1 ELSE DigitsEnd(s, i0)
        hasFrac == At(s, i1) = "." /\ At(s, i1 + 1) \in DigitSet
        i2 == IF hasFrac THEN DigitsEnd(s, i1 + 1) ELSE i1
        whole == DigitsValue(s, i0, i1)
    IN IF i1 = i0 THEN Fail(i)
       ELSE IF hasFrac
            THEN Found(Normalize(JFloat(neg,
                                        whole * Pow10(i2 - i1 - 1)
                                            + DigitsValue(s, i1 + 1, i2),
                                        i2 - i1 - 1)), i2)
            ELSE Found(JInt(IF neg THEN -whole ELSE whole), i2)

\* dict(pairs): a repeated key keeps its first position and takes the last value
RECURSIVE DictOf(_, _)
DictOf(pairs, acc) ==
    IF pairs = <<>> THEN acc
    ELSE LET p == Head(pairs)
             at == {k \in 1..Len(acc) : acc[k][1] = p[1]}
         IN DictOf(Tail(pairs),
                   IF at = {} THEN Append(acc, p)
                   ELSE [acc EXCEPT ![CHOOSE k \in at : TRUE] = p])

RECURSIVE ScanOnce(_, _)
RECURSIVE ArrayLoop(_, _, _)
RECURSIVE ObjectLoop(_, _, _)

\* the loop of JSONArray; i is the position of the next value
ArrayLoop(s, i, values) ==
    LET r == ScanOnce(s, i) IN
    IF ~r.ok THEN Fail(r.end)
    ELSE LET j == SkipWs(s, r.end)
             got == Append(values, r.val)
         IN IF At(s, j) = "]" THEN Found(JList(got), j + 1)
            ELSE IF At(s, j) # "," THEN Fail(j)
            ELSE ArrayLoop(s, SkipWs(s, j + 1), got)

\* JSONArray; i is the position after "["
ParseArray(s, i) ==
    LET j == SkipWs(s, i) IN
    IF At(s, j) = "]" THEN Found(JList(<<>>), j + 1) ELSE ArrayLoop(s, j, <<>>)

\* the loop of JSONObject; i is the position after the opening quote of a key
ObjectLoop(s, i, pairs) ==
    LET k == ScanString(s, i, <<>>) IN
    IF ~k.ok THEN Fail(k.end)
    ELSE LET c == SkipWs(s, k.end) IN
         IF At(s, c) # ":" THEN Fail(c)
         ELSE LET r == ScanOnce(s, SkipWs(s, c + 1)) IN
              IF ~r.ok THEN Fail(r.end)
              ELSE LET j == SkipWs(s, r.end)
                       got == Append(pairs, <<k.val.v, r.val>>)
                   IN IF At(s, j) = "}" THEN Found(JDict(DictOf(got, <<>>)), j + 1)
                      ELSE IF At(s, j) # "," THEN Fail(j)
                      ELSE LET q == SkipWs(s, j + 1) IN
                           IF At(s, q) # "\"" THEN Fail(q)
                           ELSE ObjectLoop(s, q + 1, got)

\* JSONObject; i is the position after "{"
ParseObject(s, i) ==
    LET j == SkipWs(s, i) IN
    IF At(s, j) = "}" THEN Found(JDict(<<>>), j + 1)
    ELSE IF At(s, j) # "\"" THEN Fail(j)
    ELSE ObjectLoop(s, j + 1, <<>>)

\* _scan_once of json.scanner
ScanOnce(s, i) ==
    LET c == At(s, i) IN
    IF c = "" THEN Fail(i)
    ELSE IF c = "\"" THEN ScanString(s, i + 1, <<>>)
    ELSE IF c = "{" THEN ParseObject(s, i + 1)
    ELSE IF c = "[" THEN ParseArray(s, i + 1)
    ELSE IF c = "n" /\ Matches(s, i, <<"n", "u", "l", "l">>) THEN Found(JNull, i + 4)
    ELSE IF c = "t" /\ Matches(s, i, <<"t", "r", "u", "e">>) THEN Found(JBool(TRUE), i + 4)
    ELSE IF c = "f" /\ Matches(s, i, <<"f", "a", "l", "s", "e">>)
         THEN Found(JBool(FALSE), i + 5)
    ELSE ScanNumber(s, i)

\* JSONDecoder.decode: one document, surrounded by whitespace only
Decode(s) ==
    LET r == ScanOnce(s, SkipWs(s, 1)) IN
    IF ~r.ok THEN Fail(r.end)
    ELSE IF SkipWs(s, r.end) # Len(s) + 1 THEN Fail(SkipWs(s, r.end))
    ELSE r

(***************************************************************************)
(* Subscription obj[key] and the printed type names.                       *)
(***************************************************************************)
Value(x) == [ok |-> TRUE, val |-> x]
Raised(e) == [ok |-> FALSE, err |-> e]

\* faulty variant of Subscript: a list position is taken one too far
Subscript_OneBased(obj, key) ==
    CASE obj.t = "dict" ->
           LET at == {k \in 1..Len(obj.v) : key.t = "str" /\ obj.v[k][1] = key.v}
           IN IF at = {} THEN Raised("KeyError")
              ELSE Value(obj.v[CHOOSE k \in at : TRUE][2])
      [] obj.t \in {"list", "str"} ->
           IF key.t # "int" THEN Raised("TypeError")
           ELSE LET n == Len(obj.v)
                    i == IF key.v < 0 THEN key.v + n ELSE key.v
                IN IF i < 0 \/ i >= n THEN Raised("IndexError")
                   ELSE Value(IF obj.t = "list" THEN obj.v[IF i + 2 > n THEN n ELSE i + 2]
                              ELSE JStr(<<obj.v[i + 1]>>))
      [] OTHER -> Raised("TypeError")

Subscript(obj, key) ==
    CASE obj.t = "dict" ->
           LET at == {k \in 1..Len(obj.v) : key.t = "str" /\ obj.v[k][1] = key.v}
           IN IF at = {} THEN Raised("KeyError")
              ELSE Value(obj.v[CHOOSE k \in at : TRUE][2])
      [] obj.t \in {"list", "str"} ->
           IF key.t # "int" THEN Raised("TypeError")
           ELSE LET n == Len(obj.v)
                    i == IF key.v < 0 THEN key.v + n ELSE key.v
                IN IF i < 0 \/ i >= n THEN Raised("IndexError")
                   ELSE Value(IF obj.t = "list" THEN obj.v[i + 1]
                              ELSE JStr(<<obj.v[i + 1]>>))
      [] OTHER -> Raised("TypeError")

RECURSIVE EvalPath(_, _)
EvalPath(obj, path) ==
    IF path = <<>> THEN Value(obj)
    ELSE LET r == Subscript(obj, Head(path)) IN
         IF r.ok THEN EvalPath(r.val, Tail(path)) ELSE r

TypeName(x) == IF x.t = "null" THEN "NoneType" ELSE x.t

(***************************************************************************)
(* The strings of the notebook, character by character.                    *)
(***************************************************************************)
K_lat == <<"l", "a", "t">>
K_lon == <<"l", "o", "n">>
K_response == <<"r", "e", "s", "p", "o", "n", "s", "e">>
K_duration == <<"d", "u", "r", "a", "t", "i", "o", "n">>
K_risetime == <<"r", "i", "s", "e", "t", "i", "m", "e">>
K_message == <<"m", "e", "s", "s", "a", "g", "e">>
K_number == <<"n", "u", "m", "b", "e", "r">>
K_people == <<"p", "e", "o", "p", "l", "e">>
K_craft == <<"c", "r", "a", "f", "t">>
K_name == <<"n", "a", "m", "e">>
K_iss_position == <<"i", "s", "s", "_", "p", "o", "s", "i", "t", "i", "o", "n">>
K_latitude == <<"l", "a", "t", "i", "t", "u", "d", "e">>
K_longitude == <<"l", "o", "n", "g", "i", "t", "u", "d", "e">>
K_timestamp == <<"t", "i", "m", "e", "s", "t", "a", "m", "p">>
S_success == <<"s", "u", "c", "c", "e", "s", "s">>
S_failure == <<"f", "a", "i", "l", "u", "r", "e">>

\* the literals of the code cells
ParamsLiteral ==
    JDict(<< <<K_lat, JFloat(FALSE, 3778, 2)>>, <<K_lon, JFloat(TRUE, 12241, 2)>> >>)
BestFoodChainsLiteral ==
    JList(<< JStr(<<"T", "a", "c", "o", " ", "B", "e", "l", "l">>),
             JStr(<<"S", "h", "a", "k", "e", " ", "S", "h", "a", "c", "k">>),
             JStr(<<"C", "h", "i", "p", "o", "t", "l", "e">>) >>)
FastFoodFranchiseLiteral ==
    JDict(<< <<<<"S", "u", "b", "w", "a", "y">>, JInt(24722)>>,
             <<<<"M", "c", "D", "o", "n", "a", "l", "d", "s">>, JInt(14098)>>,
             <<<<"S", "t", "a", "r", "b", "u", "c", "k", "s">>, JInt(10821)>>,
             <<<<"P", "i", "z", "z", "a", " ", "H", "u", "t">>, JInt(7600)>> >>)
NotebookLiterals ==
    [params |-> ParamsLiteral, parameters |-> ParamsLiteral,
     best_food_chains |-> BestFoodChainsLiteral,
     fast_food_franchise |-> FastFoodFranchiseLiteral]

(***************************************************************************)
(* The code cells, statement by statement.                                 *)
(***************************************************************************)
DisabledWaters == <<
    [op |-> "import", name |-> "requests", line |-> 53],
    [op |-> "assign", target |-> "params", line |-> 58],
    [op |-> "get", url |-> "http://api.open-notify.org/iss-now.json",
     params |-> "params", line |-> 61],
    [op |-> "print_attr", attr |-> "status_code", line |-> 67],
    [op |-> "print_attr", attr |-> "headers", line |-> 70],
    [op |-> "print_header", name |-> "Content-Type", line |-> 71],
    [op |-> "print_attr", attr |-> "content", line |-> 74] >>

ConsistentChrome == <<
    [op |-> "import", name |-> "json", line |-> 135],
    [op |-> "assign", target |-> "best_food_chains", line |-> 138],
    [op |-> "print_type", var |-> "best_food_chains", line |-> 139],
    [op |-> "dumps", target |-> "best_food_chains_string",
     var |-> "best_food_chains", line |-> 142],
    [op |-> "print_type", var |-> "best_food_chains_string", line |-> 143],
    [op |-> "print_type_loads", var |-> "best_food_chains_string", line |-> 146],
    [op |-> "assign", target |-> "fast_food_franchise", line |-> 149],
    [op |-> "dumps", target |-> "fast_food_franchise_string",
     var |-> "fast_food_franchise", line |-> 157],
    [op |-> "print_type", var |-> "fast_food_franchise_string", line |-> 158],
    [op |-> "loads", target |-> "fast_food_franchise_2",
     var |-> "fast_food_franchise_string", line |-> 161],
    [op |-> "print_type", var |-> "fast_food_franchise_2", line |-> 162] >>

DerivedAlbany == <<
    [op |-> "assign", target |-> "parameters", line |-> 201],
    [op |-> "get", url |-> "http://api.open-notify.org/iss-pass.json",
     params |-> "parameters", line |-> 202],
    [op |-> "json", target |-> "json_data", line |-> 205],
    [op |-> "print_type", var |-> "json_data", line |-> 206],
    [op |-> "print_path", var |-> "json_data", path |-> <<>>, line |-> 207],
    [op |-> "print_const", line |-> 208],
    [op |-> "print_path", var |-> "json_data",
     path |-> <<JStr(K_response)>>, line |-> 209],
    [op |-> "print_const", line |-> 210],
    [op |-> "print_path", var |-> "json_data",
     path |-> <<JStr(K_response), JInt(0)>>, line |-> 211],
    [op |-> "print_const", line |-> 212],
    [op |-> "print_path", var |-> "json_data",
     path |-> <<JStr(K_response), JInt(0), JStr(K_duration)>>, line |-> 213],
    [op |-> "assign_path", target |-> "first_pass_duration", var |-> "json_data",
     path |-> <<JStr(K_response), JInt(0), JStr(K_duration)>>, line |-> 214] >>

CheapHamilton == <<
    [op |-> "get", url |-> "http://api.open-notify.org/astros.json",
     params |-> "", line |-> 244],
    [op |-> "json", target |-> "json_data", line |-> 249],
    [op |-> "print_path", var |-> "json_data", path |-> <<>>, line |-> 250],
    [op |-> "print_const", line |-> 251],
    [op |-> "print_path", var |-> "json_data",
     path |-> <<JStr(K_number)>>, line |-> 252] >>

\* the code cells in notebook order
Program == <<DisabledWaters, ConsistentChrome, DerivedAlbany, CheapHamilton>>

\* the names of the kernel's namespace
Names == {"requests", "json", "params", "parameters", "response", "json_data",
          "first_pass_duration", "best_food_chains", "best_food_chains_string",
          "fast_food_franchise", "fast_food_franchise_string",
          "fast_food_franchise_2"}
Module == [t |-> "module"]

(***************************************************************************)
(* What the API host can answer.                                           *)
(***************************************************************************)
IssNowValue ==
    JDict(<< <<K_iss_position,
               JDict(<< <<K_latitude, JStr(<<"4", "7", ".", "0", "7", "1", "9">>)>>,
                        <<K_longitude, JStr(<<"7", "5", ".", "0", "3", "8", "7">>)>> >>)>>,
             <<K_message, JStr(S_success)>>,
             <<K_timestamp, JInt(1615317569)>> >>)
PassValue ==
    JDict(<< <<K_message, JStr(S_success)>>,
             <<K_response,
               JList(<< JDict(<< <<K_duration, JInt(611)>>,
                                 <<K_risetime, JInt(1615355909)>> >>),
                        JDict(<< <<K_duration, JInt(635)>>,
                                 <<K_risetime, JInt(1615361699)>> >>) >>)>> >>)
AstrosValue ==
    JDict(<< <<K_message, JStr(S_success)>>,
             <<K_number, JInt(7)>>,
             <<K_people,
               JList(<< JDict(<< <<K_craft, JStr(<<"I", "S", "S">>)>>,
                                 <<K_name, JStr(<<"K", "a", "t", "e", " ", "R", "u",
                                                  "b", "i", "n", "s">>)>> >>) >>)>> >>)
LaterPassValue ==
    JDict(<< <<K_message, JStr(S_success)>>,
             <<K_response,
               JList(<< JDict(<< <<K_duration, JInt(635)>>,
                                 <<K_risetime, JInt(1615361699)>> >>) >>)>> >>)
FailureValue == JDict(<< <<K_message, JStr(S_failure)>> >>)

TruncatedBy == 1

IssNowBody == Encode(IssNowValue)
PassBody == Encode(PassValue)
LaterPassBody == Encode(LaterPassValue)
AstrosBody == Encode(AstrosValue)
FailureBody == Encode(FailureValue)
\* a pass body whose transfer stopped TruncatedBy characters early
TruncatedPassBody == SubSeq(PassBody, 1, Len(PassBody) - TruncatedBy)
NotJsonBody == <<"{", "n", "o", "t", " ", "j", "s", "o", "n">>
HtmlBody == <<"<", "h", "t", "m", "l", ">">>

WellFormedBodies == {IssNowBody, PassBody, LaterPassBody, AstrosBody, FailureBody}
MalformedBodies == {TruncatedPassBody, NotJsonBody, HtmlBody}
Bodies == WellFormedBodies \cup MalformedBodies
StatusCodes == {200, 404}
JsonType == "application/json"
ContentTypeHeaders == {("Content-Type" :> JsonType), ("Content-Type" :> "text/html"), <<>>}

NoReply == [kind |-> "none"]
Unreachable == [kind |-> "unreachable"]
Replies == [kind : {"response"}, status_code : StatusCodes,
            headers : ContentTypeHeaders, content : Bodies]

VARIABLES
    ns,        \* the kernel's namespace: name -> value, Unbound when not bound
    writer,    \* name -> the run (index in ran) that bound it last, 0 for none
    literals,  \* the values of the literals of the cells
    cell,      \* the code cell being run, 0 before the first
    stmt,      \* the statement of the cell to execute next
    error,     \* the exception that ended the run of the cell, "none" if none
    ran,       \* the cells run so far, in order
    output,    \* what the cell being run has printed
    waiting,   \* whether requests.get has sent its request and awaits the reply
    inflight,  \* the requests sent and not yet answered
    sent,      \* the URLs requested so far, in order
    reply      \* the answer of the network to the request sent last

vars == <<ns, writer, literals, cell, stmt, error, ran, output, waiting,
          inflight, sent, reply>>

Running == cell # 0 /\ error = "none" /\ stmt <= Len(Program[cell])
Cur == Program[cell][stmt]
Bound(name) == ns[name].t # "unbound"

Bind(name, x) ==
    /\ ns' = [ns EXCEPT ![name] = x]
    /\ writer' = [writer EXCEPT ![name] = Len(ran)]
Proceed == stmt' = stmt + 1 /\ error' = error
\* an exception nobody catches: the run of the cell ends at this statement
Raise(e) == stmt' = stmt /\ error' = e /\ UNCHANGED <<ns, writer, output>>
Show(x) == output' = Append(output, x)

Fresh ==
    /\ ns = [n \in Names |-> Unbound]
    /\ writer = [n \in Names |-> 0]
    /\ error = "none"
    /\ output = <<>>
    /\ waiting = FALSE
    /\ inflight = {}
    /\ sent = <<>>
    /\ reply = NoReply

Init ==
    /\ Fresh
    /\ literals = NotebookLiterals
    /\ cell = 0 /\ stmt = 1 /\ ran = <<>>

(***************************************************************************)
(* Running the cells.  RunAll is the run of the notebook from top to       *)
(* bottom, which stops at the first cell that raises; RunCell is the       *)
(* reader running any cell by hand, whatever the cell before it did.       *)
(***************************************************************************)
MaxRuns == 3

Idle == IF cell = 0 THEN TRUE ELSE error # "none" \/ stmt > Len(Program[cell])

Enter(c) ==
    /\ cell' = c /\ stmt' = 1 /\ error' = "none"
    /\ ran' = Append(ran, c)
    /\ output' = <<>>
    /\ UNCHANGED <<ns, writer, literals, waiting, inflight, sent, reply>>

\* faulty variant of RunAll: the run goes on to the next cell after an exception
RunAll_AllowErrors(c) ==
    /\ Idle
    /\ c = Len(ran) + 1
    /\ Enter(c)

RunAll(c) ==
    /\ Idle /\ error = "none"
    /\ c = Len(ran) + 1
    /\ Enter(c)

RunCell(c) ==
    /\ Idle
    /\ Len(ran) < MaxRuns
    /\ Enter(c)

(***************************************************************************)
(* The statements.                                                         *)
(***************************************************************************)
\* import requests, import json
Import ==
    /\ Running /\ Cur.op = "import"
    /\ Bind(Cur.name, Module)
    /\ Proceed
    /\ UNCHANGED <<literals, cell, ran, output, waiting, inflight, sent, reply>>

\* name = <literal>
Assign ==
    /\ Running /\ Cur.op = "assign"
    /\ Bind(Cur.target, literals[Cur.target])
    /\ Proceed
    /\ UNCHANGED <<literals, cell, ran, output, waiting, inflight, sent, reply>>

\* response = requests.get(url, params): the request leaves, the call blocks
GetSend ==
    /\ Running /\ Cur.op = "get" /\ ~waiting
    /\ IF ~Bound("requests") \/ (Cur.params # "" /\ ~Bound(Cur.params))
       THEN /\ Raise("NameError")
            /\ UNCHANGED <<waiting, inflight, sent, reply>>
       ELSE /\ waiting' = TRUE
            /\ inflight' = inflight \cup
                   {[url |-> Cur.url,
                     params |-> IF Cur.params = "" THEN JNull ELSE ns[Cur.params]]}
            /\ sent' = Append(sent, Cur.url)
            /\ reply' = NoReply
            /\ UNCHANGED <<ns, writer, stmt, error, output>>
    /\ UNCHANGED <<literals, cell, ran>>

\* the host answers the request in flight, with any status, type and body
ServerReply ==
    /\ inflight # {} /\ reply = NoReply
    /\ \E r \in Replies : reply' = r
    /\ UNCHANGED <<ns, writer, literals, cell, stmt, error, ran, output, waiting,
                   inflight, sent>>

\* the host cannot be reached: no route, no DNS answer, or a timeout
NetworkFailure ==
    /\ inflight # {} /\ reply = NoReply
    /\ reply' = Unreachable
    /\ UNCHANGED <<ns, writer, literals, cell, stmt, error, ran, output, waiting,
                   inflight, sent>>

\* faulty variant of GetReturn: an unreachable host yields an empty Response
GetReturn_DefaultResponse ==
    /\ Running /\ Cur.op = "get" /\ waiting /\ reply # NoReply
    /\ waiting' = FALSE
    /\ inflight' = {}
    /\ IF reply.kind = "unreachable"
       THEN Bind("response", [t |-> "Response", status_code |-> 0,
                              headers |-> <<>>, content |-> <<>>])
       ELSE Bind("response", [t |-> "Response", status_code |-> reply.status_code,
                              headers |-> reply.headers, content |-> reply.content])
    /\ Proceed
    /\ UNCHANGED <<literals, cell, ran, sent, reply, output>>

\* faulty variant of GetReturn: a status of 400 or more raises, as raise_for_status does
GetReturn_RaiseForStatus ==
    /\ Running /\ Cur.op = "get" /\ waiting /\ reply # NoReply
    /\ waiting' = FALSE
    /\ inflight' = {}
    /\ IF reply.kind = "unreachable"
       THEN Raise("TransportError")
       ELSE IF reply.status_code >= 400
       THEN Raise("HTTPError")
       ELSE /\ Bind("response", [t |-> "Response", status_code |-> reply.status_code,
                                 headers |-> reply.headers, content |-> reply.content])
            /\ Proceed
            /\ UNCHANGED output
    /\ UNCHANGED <<literals, cell, ran, sent, reply>>

\* faulty variant of GetReturn: an unreachable host is asked once more
GetReturn_Retry ==
    /\ Running /\ Cur.op = "get" /\ waiting /\ reply # NoReply
    /\ IF reply.kind = "unreachable"
       THEN IF Len(sent) < Len(Program) + 1
            THEN /\ sent' = Append(sent, Cur.url)
                 /\ reply' = NoReply
                 /\ UNCHANGED <<ns, writer, stmt, error, output, waiting, inflight>>
            ELSE /\ Raise("TransportError")
                 /\ waiting' = FALSE /\ inflight' = {}
                 /\ UNCHANGED <<sent, reply>>
       ELSE /\ Bind("response", [t |-> "Response", status_code |-> reply.status_code,
                                 headers |-> reply.headers, content |-> reply.content])
            /\ Proceed
            /\ waiting' = FALSE /\ inflight' = {}
            /\ UNCHANGED <<output, sent, reply>>
    /\ UNCHANGED <<literals, cell, ran>>

\* requests.get returns the Response, or raises when there is none
GetReturn ==
    /\ Running /\ Cur.op = "get" /\ waiting /\ reply # NoReply
    /\ waiting' = FALSE
    /\ inflight' = {}
    /\ IF reply.kind = "unreachable"
       THEN Raise("TransportError")
       ELSE /\ Bind("response", [t |-> "Response", status_code |-> reply.status_code,
                                 headers |-> reply.headers, content |-> reply.content])
            /\ Proceed
            /\ UNCHANGED output
    /\ UNCHANGED <<literals, cell, ran, sent, reply>>

\* print(response.status_code), print(response.headers), print(response.content)
PrintAttr ==
    /\ Running /\ Cur.op = "print_attr"
    /\ IF ~Bound("response") THEN Raise("NameError")
       ELSE /\ Show(CASE Cur.attr = "status_code" -> ns["response"].status_code
                      [] Cur.attr = "headers" -> ns["response"].headers
                      [] Cur.attr = "content" -> ns["response"].content)
            /\ Proceed
            /\ UNCHANGED <<ns, writer>>
    /\ UNCHANGED <<literals, cell, ran, waiting, inflight, sent, reply>>

\* print(response.headers['Content-Type'])
PrintHeader ==
    /\ Running /\ Cur.op = "print_header"
    /\ IF ~Bound("response") THEN Raise("NameError")
       ELSE IF Cur.name \notin DOMAIN ns["response"].headers THEN Raise("KeyError")
       ELSE /\ Show(ns["response"].headers[Cur.name])
            /\ Proceed
            /\ UNCHANGED <<ns, writer>>
    /\ UNCHANGED <<literals, cell, ran, waiting, inflight, sent, reply>>

\* faulty variant of ResponseJson: a body that does not parse binds an empty dict
ResponseJson_Partial ==
    /\ Running /\ Cur.op = "json"
    /\ IF ~Bound("response") THEN Raise("NameError")
       ELSE LET r == Decode(ns["response"].content) IN
            IF ~r.ok
            THEN /\ Bind(Cur.target, JDict(<<>>))
                 /\ stmt' = stmt /\ error' = "ParseError" /\ UNCHANGED output
            ELSE /\ Bind(Cur.target, r.val)
                 /\ Proceed
                 /\ UNCHANGED output
    /\ UNCHANGED <<literals, cell, ran, waiting, inflight, sent, reply>>

\* faulty variant of ResponseJson: the exception is swallowed and the cell goes on
ResponseJson_Swallow ==
    /\ Running /\ Cur.op = "json"
    /\ IF ~Bound("response") THEN Raise("NameError")
       ELSE LET r == Decode(ns["response"].content) IN
            IF ~r.ok
            THEN Proceed /\ UNCHANGED <<ns, writer, output>>
            ELSE /\ Bind(Cur.target, r.val)
                 /\ Proceed
                 /\ UNCHANGED output
    /\ UNCHANGED <<literals, cell, ran, waiting, inflight, sent, reply>>

\* json_data = response.json()
ResponseJson ==
    /\ Running /\ Cur.op = "json"
    /\ IF ~Bound("response") THEN Raise("NameError")
       ELSE LET r == Decode(ns["response"].content) IN
            IF ~r.ok THEN Raise("ParseError")
            ELSE /\ Bind(Cur.target, r.val)
                 /\ Proceed
                 /\ UNCHANGED output
    /\ UNCHANGED <<literals, cell, ran, waiting, inflight, sent, reply>>

\* print(type(name))
PrintType ==
    /\ Running /\ Cur.op = "print_type"
    /\ IF ~Bound(Cur.var) THEN Raise("NameError")
       ELSE /\ Show(TypeName(ns[Cur.var]))
            /\ Proceed
            /\ UNCHANGED <<ns, writer>>
    /\ UNCHANGED <<literals, cell, ran, waiting, inflight, sent, reply>>

\* print('\n')
PrintConst ==
    /\ Running /\ Cur.op = "print_const"
    /\ Show("\n")
    /\ Proceed
    /\ UNCHANGED <<ns, writer, literals, cell, ran, waiting, inflight, sent, reply>>

\* print(json_data), print(json_data['response'][0]['duration']), ...
PrintPath ==
    /\ Running /\ Cur.op = "print_path"
    /\ IF ~Bound(Cur.var) THEN Raise("NameError")
       ELSE LET r == EvalPath(ns[Cur.var], Cur.path) IN
            IF ~r.ok THEN Raise(r.err)
            ELSE /\ Show(r.val)
                 /\ Proceed
                 /\ UNCHANGED <<ns, writer>>
    /\ UNCHANGED <<literals, cell, ran, waiting, inflight, sent, reply>>

\* first_pass_duration = json_data['response'][0]['duration']
AssignPath ==
    /\ Running /\ Cur.op = "assign_path"
    /\ IF ~Bound(Cur.var) THEN Raise("NameError")
       ELSE LET r == EvalPath(ns[Cur.var], Cur.path) IN
            IF ~r.ok THEN Raise(r.err)
            ELSE /\ Bind(Cur.target, r.val)
                 /\ Proceed
                 /\ UNCHANGED output
    /\ UNCHANGED <<literals, cell, ran, waiting, inflight, sent, reply>>

\* name_string = json.dumps(name)
Dumps ==
    /\ Running /\ Cur.op = "dumps"
    /\ IF ~Bound("json") \/ ~Bound(Cur.var) THEN Raise("NameError")
       ELSE /\ Bind(Cur.target, JStr(Encode(ns[Cur.var])))
            /\ Proceed
            /\ UNCHANGED output
    /\ UNCHANGED <<literals, cell, ran, waiting, inflight, sent, reply>>

\* name_2 = json.loads(name_string)
Loads ==
    /\ Running /\ Cur.op = "loads"
    /\ IF ~Bound("json") \/ ~Bound(Cur.var) THEN Raise("NameError")
       ELSE LET r == Decode(ns[Cur.var].v) IN
            IF ~r.ok THEN Raise("ParseError")
            ELSE /\ Bind(Cur.target, r.val)
                 /\ Proceed
                 /\ UNCHANGED output
    /\ UNCHANGED <<literals, cell, ran, waiting, inflight, sent, reply>>

\* print(type(json.loads(name_string)))
PrintTypeLoads ==
    /\ Running /\ Cur.op = "print_type_loads"
    /\ IF ~Bound("json") \/ ~Bound(Cur.var) THEN Raise("NameError")
       ELSE LET r == Decode(ns[Cur.var].v) IN
            IF ~r.ok THEN Raise("ParseError")
            ELSE /\ Show(TypeName(r.val))
                 /\ Proceed
                 /\ UNCHANGED <<ns, writer>>
    /\ UNCHANGED <<literals, cell, ran, waiting, inflight, sent, reply>>

Statement ==
    \/ Import \/ Assign
    \/ GetSend \/ ServerReply \/ NetworkFailure \/ GetReturn
    \/ PrintAttr \/ PrintHeader \/ ResponseJson
    \/ PrintType \/ PrintConst \/ PrintPath \/ AssignPath
    \/ Dumps \/ Loads \/ PrintTypeLoads

\* the notebook run from top to bottom
Next == (\E c \in 1..Len(Program) : RunAll(c)) \/ Statement
Spec == Init /\ [][Next]_vars

\* the cells run by hand, in any order, MaxRuns times in all
NextAnyOrder == (\E c \in 1..Len(Program) : RunCell(c)) \/ Statement
SpecAnyOrder == Init /\ [][NextAnyOrder]_vars

(***************************************************************************)
(* The codec on its own: cell consistent-chrome with its two literals      *)
(* drawn from bounded sets of values of every kind.                        *)
(***************************************************************************)
MaxLen == 2
MaxPairs == 2

SeqsUpTo(S, n) == UNION {[1..k -> S] : k \in 0..n}

Atoms == {JNull, JBool(TRUE), JBool(FALSE), JInt(0), JInt(-7), JInt(611),
          JFloat(FALSE, 3778, 2), JFloat(TRUE, 12241, 2), JFloat(FALSE, 0, 1),
          JFloat(FALSE, 5, 3),
          JStr(<<>>), JStr(<<"a", "\"", "\\", "n">>), JStr(<<" ", "\n", "\t", "/">>),
          JStr(<<"[", "1", ",", "]", "{", ":", "}">>)}
ItemAtoms == {JNull, JBool(TRUE), JInt(-7), JStr(<<"\"", "\\">>)}
Inner == {JList(<<>>), JList(<<JInt(1), JNull>>), JDict(<<>>),
          JDict(<< <<<<"k">>, JFloat(TRUE, 5, 1)>> >>)}
Keys == {<<"k">>, <<"a", "\"">>, <<>>}
PairValues == {JInt(1), JList(<<JNull>>)}

Lists == {JList(s) : s \in SeqsUpTo(ItemAtoms, MaxLen)}
NestedLists == {JList(s) : s \in SeqsUpTo(Inner, MaxLen)}
UniqueKeys(ps) == \A i, j \in 1..Len(ps) : ps[i][1] = ps[j][1] => i = j
Dicts == {JDict(ps) : ps \in {q \in SeqsUpTo(Keys \X PairValues, MaxPairs) : UniqueKeys(q)}}
NestedDicts == {JDict(<< <<k, x>> >>) : k \in Keys, x \in Inner}
Samples == {BestFoodChainsLiteral, FastFoodFranchiseLiteral, PassValue, AstrosValue,
            IssNowValue}
Values == Atoms \cup Lists \cup NestedLists \cup Dicts \cup NestedDicts \cup Samples

InitCodec ==
    /\ Fresh
    /\ \E v \in Values, d \in Dicts \cup {FastFoodFranchiseLiteral} :
           literals = [NotebookLiterals EXCEPT !.best_food_chains = v,
                                               !.fast_food_franchise = d]
    /\ cell = 2 /\ stmt = 1 /\ ran = <<2>>

NextCodec == Import \/ Assign \/ PrintType \/ Dumps \/ PrintTypeLoads \/ Loads
SpecCodec == InitCodec /\ [][NextCodec]_vars

(***************************************************************************)
(* Properties.                                                             *)
(***************************************************************************)
\* == of Python on decoded values, with the types kept apart: lists compare
\* item by item in order, dicts by their key-value pairs whatever their order
RECURSIVE PyEq(_, _)
PyEq(a, b) ==
    IF a.t # b.t THEN FALSE
    ELSE CASE a.t = "list" ->
                /\ Len(a.v) = Len(b.v)
                /\ \A i \in 1..Len(a.v) : PyEq(a.v[i], b.v[i])
           [] a.t = "dict" ->
                /\ Len(a.v) = Len(b.v)
                /\ \A i \in 1..Len(a.v) : \E j \in 1..Len(b.v) :
                       a.v[i][1] = b.v[j][1] /\ PyEq(a.v[i][2], b.v[j][2])
           [] OTHER -> a = b

InCell == IF cell = 0 THEN FALSE ELSE stmt <= Len(Program[cell])
AtOp(op) == IF InCell THEN Cur.op = op ELSE FALSE
\* the name was bound by the run of the cell in progress
BoundHere(name) == Bound(name) /\ writer[name] = Len(ran)

\* C1: the value json.loads gives back for the text json.dumps wrote equals the
\* value that was written, for every value of every kind: the decoded text of
\* best_food_chains_string equals best_food_chains, fast_food_franchise_2 equals
\* fast_food_franchise, and no json.loads of a dumped text raises.
C1_RoundTrip ==
    /\ error = "none"
    /\ Bound("best_food_chains_string") =>
           LET r == Decode(ns["best_food_chains_string"].v) IN
           IF r.ok THEN PyEq(r.val, ns["best_food_chains"]) ELSE FALSE
    /\ Bound("fast_food_franchise_2") =>
           PyEq(ns["fast_food_franchise_2"], ns["fast_food_franchise"])
    /\ (AtOp("assign") /\ stmt > 2) =>
           output[Len(output)] = TypeName(ns["best_food_chains"])

\* a string with a quote and a backslash inside a list has gone through both calls
C1_Witness ==
    /\ Bound("fast_food_franchise_2")
    /\ ns["fast_food_franchise"].t = "dict" /\ Len(ns["fast_food_franchise"].v) = 2
    /\ ns["best_food_chains"] = JList(<<JStr(<<"\"", "\\">>), JInt(-7)>>)

\* C2: response.json() on a body that is not well-formed JSON ends in ParseError
\* and binds nothing: json_data keeps whatever it held, no other name changes,
\* nothing is printed and the cell does not go on.
C2_MalformedRaises ==
    [][(AtOp("json") /\ error = "none" /\ Bound("response")
           /\ ns["response"].content \in MalformedBodies)
        => (error' = "ParseError" /\ ns' = ns /\ writer' = writer
              /\ output' = output /\ stmt' = stmt)]_vars

\* "{not json" was decoded in the last cell, while json_data still holds the
\* value of the cell before
C2_Witness ==
    /\ error = "ParseError" /\ cell = 4
    /\ ns["response"].content = NotJsonBody
    /\ Bound("json_data") /\ ~BoundHere("json_data")

\* C3: when the host cannot be reached, requests.get ends in TransportError and
\* binds nothing: response keeps whatever it held before the call.
C3_UnreachableRaises ==
    /\ [](error = "TransportError" => ~BoundHere("response") /\ AtOp("get"))
    /\ [][(waiting /\ reply = Unreachable)
           => (error' = "TransportError" /\ ns' = ns /\ writer' = writer)]_vars

\* the third request found the host unreachable after two that were answered
C3_Witness ==
    /\ error = "TransportError" /\ cell = 4 /\ reply = Unreachable
    /\ Bound("response") /\ writer["response"] = 3

\* C4: whatever status the host answers with, requests.get returns a Response
\* with that status and the cell goes on to its next statement without raising.
C4_StatusNotAnError ==
    [][(waiting /\ reply # NoReply /\ reply # Unreachable)
        => (/\ IF ns'["response"].t = "Response" /\ writer'["response"] = Len(ran)
               THEN /\ ns'["response"].status_code = reply.status_code
                    /\ ns'["response"].content = reply.content
               ELSE FALSE
            /\ error' = "none"
            /\ stmt' = stmt + 1)]_vars

\* a 404 answer was decoded and its body read to the end of the cell
C4_Witness ==
    /\ cell = 3 /\ stmt > Len(Program[3]) /\ error = "none"
    /\ ns["response"].status_code = 404
    /\ BoundHere("first_pass_duration")

\* C5: subscription by key gives the value the dict holds for the key and by
\* position i the item i of a list, counted from 0: the astros body gives 7 for
\* number and "success" for message, and first_pass_duration is the duration of
\* the first pass of the body, 611 for the recorded one.
C5_FieldAccess ==
    /\ (cell = 3 /\ BoundHere("first_pass_duration")) =>
           /\ ns["response"].content = PassBody =>
                  ns["first_pass_duration"] = JInt(611)
           /\ ns["response"].content = LaterPassBody =>
                  ns["first_pass_duration"] = JInt(635)
           /\ output[Len(output)] = ns["first_pass_duration"]
    /\ (BoundHere("json_data") /\ ns["response"].content = AstrosBody) =>
           /\ Subscript(ns["json_data"], JStr(K_number)) = Value(JInt(7))
           /\ Subscript(ns["json_data"], JStr(K_message)) = Value(JStr(S_success))
           /\ (cell = 4 /\ stmt > Len(Program[4]) /\ error = "none") =>
                  output[Len(output)] = JInt(7)
    /\ (BoundHere("json_data") /\ ns["json_data"].t = "dict") =>
           \A k \in 1..Len(ns["json_data"].v) :
               LET pair == ns["json_data"].v[k]
                   got == Subscript(ns["json_data"], JStr(pair[1]))
               IN /\ got = Value(pair[2])
                  /\ pair[2].t = "list" =>
                         \A i \in 1..Len(pair[2].v) :
                             Subscript(pair[2], JInt(i - 1)) = Value(pair[2].v[i])

\* the recorded pass body was read down to the duration of its first pass
C5_Witness ==
    /\ cell = 3 /\ BoundHere("first_pass_duration")
    /\ ns["response"].content = PassBody
    /\ ns["first_pass_duration"] = JInt(611)

\* C6: once a statement has ended in TransportError or ParseError nothing more
\* happens: no request is sent, nothing is decoded, printed or bound, no cell
\* is entered and the statement is not executed again.
C6_FailureStops ==
    [][(error \in {"TransportError", "ParseError"}) => UNCHANGED vars]_vars

\* the second cell that asks the host failed to parse its answer
C6_Witness ==
    /\ error = "ParseError" /\ cell = 3 /\ ran = <<1, 2, 3>>
    /\ Len(sent) = 2

\* C7: response.json() is executed only on a Response whose Content-Type says
\* JSON.
C7_DecodeOnlyJson ==
    (AtOp("json") /\ BoundHere("response")) =>
        IF "Content-Type" \in DOMAIN ns["response"].headers
        THEN ns["response"].headers["Content-Type"] = JsonType
        ELSE FALSE

\* the names a statement reads
ReadsOf(s) ==
    CASE s.op \in {"print_attr", "print_header", "json"} -> {"response"}
      [] s.op \in {"print_type", "print_path", "assign_path", "dumps", "loads",
                   "print_type_loads"} -> {s.var}
      [] s.op = "get" -> {s.params} \ {""}
      [] OTHER -> {}

\* C8 as stated: no Response or decoded value outlives the cell that produced
\* it (response and json_data are bound only while the cell that bound them is
\* running), and a statement that reads one reads the value of its own cell.
C8_NothingOutlivesItsCell ==
    /\ \A n \in {"response", "json_data"} :
           Bound(n) => (BoundHere(n) /\ InCell /\ error = "none")
    /\ (InCell /\ error = "none") =>
           \A n \in ReadsOf(Cur) \cap {"response", "json_data"} : BoundHere(n)

\* C8: in any order of the cells, a statement that reads response or json_data
\* reads the value bound earlier by the same run of the same cell.
C8_ReadsOwnCell ==
    (InCell /\ error = "none") =>
        \A n \in ReadsOf(Cur) \cap {"response", "json_data"} : BoundHere(n)

\* the last cell was run before the third, and the third reads its own json_data
\* while the name was already bound by the last cell
C8_Witness ==
    /\ ran = <<1, 4, 3>> /\ error = "none" /\ AtOp("assign_path")
    /\ BoundHere("json_data")

Order == <<"http://api.open-notify.org/iss-now.json",
           "http://api.open-notify.org/iss-pass.json",
           "http://api.open-notify.org/astros.json">>
IsPrefix(a, b) == Len(a) <= Len(b) /\ a = SubSeq(b, 1, Len(a))
\* the run from top to bottom is over: the last cell ended or a cell raised
Over == error # "none" \/ (cell = Len(Program) /\ ~InCell)

C9_OrderAndInsertion ==
    /\ (Bound("best_food_chains_string") /\ ns["best_food_chains"].t = "list") =>
           LET r == Decode(ns["best_food_chains_string"].v) IN
           IF r.ok /\ r.val.t = "list" /\ Len(r.val.v) = Len(ns["best_food_chains"].v)
           THEN \A i \in 1..Len(r.val.v) :
                    PyEq(r.val.v[i], ns["best_food_chains"].v[i])
           ELSE FALSE
    /\ (Bound("fast_food_franchise_2") /\ ns["best_food_chains"].t = "dict"
           /\ PyEq(ns["best_food_chains"], ns["fast_food_franchise"])) =>
           LET r == Decode(ns["best_food_chains_string"].v) IN
           IF r.ok THEN PyEq(r.val, ns["fast_food_franchise_2"]) ELSE FALSE

\* two dicts with the same two pairs in opposite orders have both come back
C9_Witness ==
    /\ Bound("fast_food_franchise_2")
    /\ ns["best_food_chains"].t = "dict" /\ Len(ns["best_food_chains"].v) = 2
    /\ PyEq(ns["best_food_chains"], ns["fast_food_franchise"])
    /\ ns["best_food_chains"].v[1] = ns["fast_food_franchise"].v[2]
====
